---------------------------- MODULE Spec2Model ----------------------------
(***************************************************************************)
(* The three kitties contracts as one state machine:                       *)
(*   KittyCoin   (src/kitty_coin/lib.rs)   the fungible ledger,            *)
(*   Kitties     (src/kitties/lib.rs)      the non-fungible registry,      *)
(*   KittyMarket (src/kitty_market/lib.rs) the marketplace.                *)
(*                                                                         *)
(* Every message is a pure operator from the storage before the call (and  *)
(* the caller and arguments) to a record holding the returned value `res`  *)
(* and the storage the code has written when it returns.  The storage      *)
(* writes are those of the contract code, in its order: a message that     *)
(* writes and then returns Err leaves its writes in the returned storage.  *)
(* A panic (expect on None, arithmetic overflow of a checked build) is the *)
(* result "Panic"; the call is then rolled back as a whole                 *)
(* (src/kitties/lib.rs:18-19), so the action leaves the storage unchanged. *)
(***************************************************************************)
EXTENDS Integers, Sequences, FiniteSets, TLC

(***************************************************************************)
(* Accounts.                                                               *)
(***************************************************************************)
\* AccountId::from([0x0; 32])
ZeroAccount == "zero"
\* externally owned accounts: the callers of the messages
Users == {"alice", "bob"}
\* the account of the Kitties contract: self.env().account_id() in mint,
\* kitties_contract_account in the marketplace
KittiesAccount == "kitties"
\* the account of the KittyMarket contract: the caller Kitties and KittyCoin
\* see when the marketplace calls them
MarketAccount == "market"
Accounts == Users \cup {KittiesAccount, MarketAccount, ZeroAccount}

\* Option::None of an Option<AccountId>
None == "None"

(***************************************************************************)
(* Bounds of the model.                                                    *)
(***************************************************************************)
\* the ledger is created with this supply
TotalSupply == 2
\* values and prices passed to the messages are 0..MaxValue
MaxValue == 1
\* no step is taken that makes an owned-kitties count exceed this
MaxCount == 2

\* the kitty ids passed to the registry's messages, and the one the
\* marketplace is exercised with
KittyIds == {1, 2}
MarketKittyIds == {1}
Values == 0..MaxValue

\* Kitties::new(erc20, mint_price): the price the registry is deployed with
mint_price == 1

(***************************************************************************)
(* ink::storage::Mapping as a function on the keys that have an entry.     *)
(***************************************************************************)
EmptyMapping == [x \in {} |-> 0]
contains(m, key) == key \in DOMAIN m
insert(m, key, v) == [x \in (DOMAIN m) \cup {key} |-> IF x = key THEN v ELSE m[x]]
remove(m, key) == [x \in (DOMAIN m) \ {key} |-> m[x]]
\* Mapping<_, AccountId>::get as an Option<AccountId>
get(m, key) == IF key \in DOMAIN m THEN m[key] ELSE None

\* Vec::contains, Vec::push (Append) and Vec::retain(|&id| id != kitty_id)
vec_contains(v, x) == \E i \in 1..Len(v) : v[i] = x
retain_ne(v, x) == SelectSeq(v, LAMBDA y : y # x)

VARIABLES
    coin,      \* KittyCoin storage: [balances, allowances, total_supply]
    kitties,   \* Kitties storage: [kitty_owner, token_approvals,
               \*                   owned_kitties_count, operator_approvals]
    market,    \* KittyMarket storage: [kitties_for_sale, kitty_ids_for_sale,
               \*                       kitties_for_adoption, minted_count]
    last,      \* the last message called from outside: its name, caller,
               \* arguments and returned value
    listed_by  \* history: for each kitty id that has a price, the caller of
               \* the list_for_sale call that set it

vars == <<coin, kitties, market, last, listed_by>>

(***************************************************************************)
(* KittyCoin.  balances and allowances are read only through               *)
(* get(..).unwrap_or_default(), so a missing entry and an entry of 0 are   *)
(* the same value: both mappings are total functions with 0 for no entry.  *)
(* Only Users call approve and only Users are named as `from`, so the      *)
(* allowances are kept for the owners in Users.                            *)
(***************************************************************************)
KittyCoin_new(caller, total_supply) ==
    [ total_supply |-> total_supply,
      balances     |-> [a \in Accounts |-> IF a = caller THEN total_supply ELSE 0],
      allowances   |-> [p \in Users \X Accounts |-> 0] ]

KittyCoin_total_supply(c) == c.total_supply

KittyCoin_balance_of(c, who) == c.balances[who]

\* transfer_helper that sets the balance of `to` to value instead of adding
transfer_helper_overwrite(c, from, to, value) ==
    LET balance_from == KittyCoin_balance_of(c, from)
    IN  IF value > balance_from
        THEN [res |-> "BalanceTooLow", coin |-> c]
        ELSE LET b1 == [c.balances EXCEPT ![from] = balance_from - value]
                 b2 == [b1 EXCEPT ![to] = value]
             IN  [res |-> "Ok", coin |-> [c EXCEPT !.balances = b2]]

\* both balances are read before either is written, and `to` is written last
transfer_helper(c, from, to, value) ==
    LET balance_from == KittyCoin_balance_of(c, from)
        balance_to   == KittyCoin_balance_of(c, to)
    IN  IF value > balance_from
        THEN [res |-> "BalanceTooLow", coin |-> c]
        ELSE LET b1 == [c.balances EXCEPT ![from] = balance_from - value]
                 b2 == [b1 EXCEPT ![to] = balance_to + value]
             IN  [res |-> "Ok", coin |-> [c EXCEPT !.balances = b2]]

\* approve that adds value to the allowance
KittyCoin_approve_added(c, caller, spender, value) ==
    [res |-> "Ok",
     coin |-> [c EXCEPT !.allowances[<<caller, spender>>] = @ + value]]

KittyCoin_approve(c, caller, spender, value) ==
    [res |-> "Ok",
     coin |-> [c EXCEPT !.allowances[<<caller, spender>>] = value]]

KittyCoin_transfer(c, caller, to, value) ==
    transfer_helper(c, caller, to, value)

KittyCoin_transfer_from(c, caller, from, to, value) ==
    LET allowance == c.allowances[<<from, caller>>]
    IN  IF allowance < value
        THEN [res |-> "AllowanceTooLow", coin |-> c]
        ELSE transfer_helper(
                 [c EXCEPT !.allowances[<<from, caller>>] = allowance - value],
                 from, to, value)

(***************************************************************************)
(* Kitties.  A message returns [res, kitties]; mint, which calls the       *)
(* ledger, returns [res, kitties, coin].                                    *)
(***************************************************************************)
Kitties_new ==
    [ kitty_owner         |-> EmptyMapping,
      token_approvals     |-> EmptyMapping,
      owned_kitties_count |-> EmptyMapping,
      operator_approvals  |-> {} ]

Kitties_owner_of(k, id) == get(k.kitty_owner, id)

Kitties_get_approved(k, id) == get(k.token_approvals, id)

balance_of_or_zero(k, of) ==
    IF contains(k.owned_kitties_count, of) THEN k.owned_kitties_count[of] ELSE 0

Kitties_balance_of(k, owner) == balance_of_or_zero(k, owner)

approved_for_all(k, owner, operator) == <<owner, operator>> \in k.operator_approvals

Kitties_is_approved_for_all(k, owner, operator) == approved_for_all(k, owner, operator)

exists(k, id) == contains(k.kitty_owner, id)

\* `from` is Some(from): the callers pass Some(caller)
approved_or_owner(k, from, id) ==
    LET owner == Kitties_owner_of(k, id)
    IN  /\ from # ZeroAccount
        /\ \/ from = owner
           \/ from = get(k.token_approvals, id)
           \/ approved_for_all(k, owner, from)

\* owner.expect(..) is reached with owner == None
approved_or_owner_panics(k, from, id) ==
    /\ from # ZeroAccount
    /\ from # Kitties_owner_of(k, id)
    /\ from # get(k.token_approvals, id)
    /\ Kitties_owner_of(k, id) = None

\* clear_approval with the removal forgotten: the approval is left in place
clear_approval_kept(k, id) == k

clear_approval(k, id) ==
    [k EXCEPT !.token_approvals = remove(@, id)]

\* remove_token_from with the count of `from` left as it was
remove_token_from_count_kept(k, from, id) ==
    IF ~contains(k.kitty_owner, id)
    THEN [res |-> "TokenNotFound", kitties |-> k]
    ELSE IF ~contains(k.owned_kitties_count, from)
    THEN [res |-> "CannotFetchValue", kitties |-> k]
    ELSE [res |-> "Ok", kitties |-> [k EXCEPT !.kitty_owner = remove(@, id)]]

\* c - 1 on a count of 0 overflows u32: a panic
remove_token_from(k, from, id) ==
    IF ~contains(k.kitty_owner, id)
    THEN [res |-> "TokenNotFound", kitties |-> k]
    ELSE IF ~contains(k.owned_kitties_count, from)
    THEN [res |-> "CannotFetchValue", kitties |-> k]
    ELSE IF k.owned_kitties_count[from] = 0
    THEN [res |-> "Panic", kitties |-> k]
    ELSE LET count == k.owned_kitties_count[from] - 1
         IN  [res |-> "Ok",
              kitties |-> [k EXCEPT
                  !.owned_kitties_count = insert(@, from, count),
                  !.kitty_owner = remove(@, id)]]

\* add_token_to without the test for the zero account
add_token_to_any(k, to, id) ==
    IF contains(k.kitty_owner, id)
    THEN [res |-> "TokenExists", kitties |-> k]
    ELSE LET count == IF contains(k.owned_kitties_count, to)
                      THEN k.owned_kitties_count[to] + 1
                      ELSE 1
         IN  [res |-> "Ok",
              kitties |-> [k EXCEPT
                  !.owned_kitties_count = insert(@, to, count),
                  !.kitty_owner = insert(@, id, to)]]

add_token_to(k, to, id) ==
    IF contains(k.kitty_owner, id)
    THEN [res |-> "TokenExists", kitties |-> k]
    ELSE IF to = ZeroAccount
    THEN [res |-> "NotAllowed", kitties |-> k]
    ELSE LET count == IF contains(k.owned_kitties_count, to)
                      THEN k.owned_kitties_count[to] + 1
                      ELSE 1
         IN  [res |-> "Ok",
              kitties |-> [k EXCEPT
                  !.owned_kitties_count = insert(@, to, count),
                  !.kitty_owner = insert(@, id, to)]]

transfer_token_from(k, caller, from, to, id) ==
    IF ~exists(k, id)
    THEN [res |-> "TokenNotFound", kitties |-> k]
    ELSE IF approved_or_owner_panics(k, caller, id)
    THEN [res |-> "Panic", kitties |-> k]
    ELSE IF ~approved_or_owner(k, caller, id)
    THEN [res |-> "NotApproved", kitties |-> k]
    ELSE LET removed == remove_token_from(clear_approval(k, id), from, id)
         IN  IF removed.res # "Ok"
             THEN removed
             ELSE add_token_to(removed.kitties, to, id)

\* approve_for_all that never removes: `approved` is taken as true
approve_for_all_insert_only(k, caller, to, approved) ==
    IF to = caller
    THEN [res |-> "NotAllowed", kitties |-> k]
    ELSE [res |-> "Ok",
          kitties |-> [k EXCEPT !.operator_approvals = @ \cup {<<caller, to>>}]]

approve_for_all(k, caller, to, approved) ==
    IF to = caller
    THEN [res |-> "NotAllowed", kitties |-> k]
    ELSE [res |-> "Ok",
          kitties |-> [k EXCEPT !.operator_approvals =
                          IF approved THEN @ \cup {<<caller, to>>}
                                      ELSE @ \ {<<caller, to>>}]]

\* approve_for without the test of the caller
approve_for_anyone(k, caller, to, id) ==
    LET owner == Kitties_owner_of(k, id)
    IN  IF owner = None
        THEN [res |-> "Panic", kitties |-> k]
        ELSE IF to = ZeroAccount
        THEN [res |-> "NotAllowed", kitties |-> k]
        ELSE IF contains(k.token_approvals, id)
        THEN [res |-> "CannotInsert", kitties |-> k]
        ELSE [res |-> "Ok",
              kitties |-> [k EXCEPT !.token_approvals = insert(@, id, to)]]

\* approve_for without the test for an approval already made: the new
\* approval replaces it
approve_for_overwrite(k, caller, to, id) ==
    LET owner == Kitties_owner_of(k, id)
    IN  IF owner = None
        THEN [res |-> "Panic", kitties |-> k]
        ELSE IF ~(owner = caller \/ approved_for_all(k, owner, caller))
        THEN [res |-> "NotAllowed", kitties |-> k]
        ELSE IF to = ZeroAccount
        THEN [res |-> "NotAllowed", kitties |-> k]
        ELSE [res |-> "Ok",
              kitties |-> [k EXCEPT !.token_approvals = insert(@, id, to)]]

\* owner.expect(..) panics when the id has no owner: owner == Some(caller)
\* is then false and the second operand of || is evaluated
approve_for(k, caller, to, id) ==
    LET owner == Kitties_owner_of(k, id)
    IN  IF owner = None
        THEN [res |-> "Panic", kitties |-> k]
        ELSE IF ~(owner = caller \/ approved_for_all(k, owner, caller))
        THEN [res |-> "NotAllowed", kitties |-> k]
        ELSE IF to = ZeroAccount
        THEN [res |-> "NotAllowed", kitties |-> k]
        ELSE IF contains(k.token_approvals, id)
        THEN [res |-> "CannotInsert", kitties |-> k]
        ELSE [res |-> "Ok",
              kitties |-> [k EXCEPT !.token_approvals = insert(@, id, to)]]

Kitties_set_approval_for_all(k, caller, to, approved) ==
    approve_for_all(k, caller, to, approved)

Kitties_approve(k, caller, to, id) == approve_for(k, caller, to, id)

Kitties_transfer(k, caller, destination, id) ==
    transfer_token_from(k, caller, caller, destination, id)

Kitties_transfer_from(k, caller, from, to, id) ==
    transfer_token_from(k, caller, from, to, id)

\* mint without the payment: the kitty is created and the ledger is not asked
Kitties_mint_unpaid(k, c, caller, id) ==
    LET added == add_token_to(k, caller, id)
    IN  [res |-> added.res, kitties |-> added.kitties, coin |-> c]

\* the ledger sees the Kitties contract as the caller of transfer_from
Kitties_mint(k, c, caller, id) ==
    LET payment_result ==
            KittyCoin_transfer_from(c, KittiesAccount, caller, KittiesAccount, mint_price)
    IN  IF payment_result.res # "Ok"
        THEN [res |-> "CoinTransferFail", kitties |-> k, coin |-> payment_result.coin]
        ELSE LET added == add_token_to(k, caller, id)
             IN  [res |-> added.res, kitties |-> added.kitties,
                  coin |-> payment_result.coin]

\* burn that accepts every caller transfer accepts
Kitties_burn_approved(k, caller, id) ==
    IF ~contains(k.kitty_owner, id)
    THEN [res |-> "TokenNotFound", kitties |-> k]
    ELSE IF ~approved_or_owner(k, caller, id)
    THEN [res |-> "NotOwner", kitties |-> k]
    ELSE remove_token_from(k, k.kitty_owner[id], id)

Kitties_burn(k, caller, id) ==
    IF ~contains(k.kitty_owner, id)
    THEN [res |-> "TokenNotFound", kitties |-> k]
    ELSE IF k.kitty_owner[id] # caller
    THEN [res |-> "NotOwner", kitties |-> k]
    ELSE IF ~contains(k.owned_kitties_count, caller)
    THEN [res |-> "CannotFetchValue", kitties |-> k]
    ELSE IF k.owned_kitties_count[caller] = 0
    THEN [res |-> "Panic", kitties |-> k]
    ELSE [res |-> "Ok",
          kitties |-> [k EXCEPT
              !.owned_kitties_count = insert(@, caller, k.owned_kitties_count[caller] - 1),
              !.kitty_owner = remove(@, id)]]

(***************************************************************************)
(* KittyMarket.  A message returns [res, market, kitties, coin].  Kitties   *)
(* and KittyCoin see the marketplace contract as the caller of the calls   *)
(* it makes.                                                               *)
(***************************************************************************)
KittyMarket_new ==
    [ kitties_for_sale     |-> EmptyMapping,
      kitty_ids_for_sale   |-> <<>>,
      kitties_for_adoption |-> <<>>,
      minted_count         |-> 0 ]

\* the account the marketplace names in self.kitties.approve(..): the
\* constructor stores the address of the Kitties contract in it
kitties_contract_account == KittiesAccount

adoption_list(m) == m.kitties_for_adoption

KittyMarket_list_for_adoption(m, k, c, caller, kitty_id) ==
    LET owner == Kitties_owner_of(k, kitty_id)
        list_adopt_result ==
            Kitties_approve(k, MarketAccount, kitties_contract_account, kitty_id)
    IN  IF owner # caller
        THEN [res |-> "NotOwner", market |-> m, kitties |-> k, coin |-> c]
        ELSE IF vec_contains(m.kitties_for_adoption, kitty_id)
        THEN [res |-> "AlreadyListedForAdoption", market |-> m, kitties |-> k, coin |-> c]
        ELSE IF list_adopt_result.res = "Panic"
        THEN [res |-> "Panic", market |-> m, kitties |-> k, coin |-> c]
        ELSE IF list_adopt_result.res # "Ok"
        THEN [res |-> "ListAdoptNotApproved", market |-> m,
              kitties |-> list_adopt_result.kitties, coin |-> c]
        ELSE [res |-> "Ok",
              market |-> [m EXCEPT
                  !.kitties_for_adoption = Append(@, kitty_id),
                  !.kitty_ids_for_sale = retain_ne(@, kitty_id)],
              kitties |-> list_adopt_result.kitties, coin |-> c]

\* adopt without the test of the adoption list
KittyMarket_adopt_unlisted(m, k, c, caller, kitty_id) ==
    LET owner == Kitties_owner_of(k, kitty_id)
        ownership_transfer_result ==
            Kitties_transfer_from(k, MarketAccount, owner, caller, kitty_id)
    IN  IF owner = None \/ ownership_transfer_result.res = "Panic"
        THEN [res |-> "Panic", market |-> m, kitties |-> k, coin |-> c]
        ELSE IF ownership_transfer_result.res # "Ok"
        THEN [res |-> "OwnershipTransferFail", market |-> m,
              kitties |-> ownership_transfer_result.kitties, coin |-> c]
        ELSE [res |-> "Ok",
              market |-> [m EXCEPT !.kitties_for_adoption = retain_ne(@, kitty_id)],
              kitties |-> ownership_transfer_result.kitties, coin |-> c]

\* adopt with the listing left in place
KittyMarket_adopt_listing_kept(m, k, c, caller, kitty_id) ==
    LET owner == Kitties_owner_of(k, kitty_id)
        ownership_transfer_result ==
            Kitties_transfer_from(k, MarketAccount, owner, caller, kitty_id)
    IN  IF ~vec_contains(m.kitties_for_adoption, kitty_id)
        THEN [res |-> "NotForAdoption", market |-> m, kitties |-> k, coin |-> c]
        ELSE IF owner = None \/ ownership_transfer_result.res = "Panic"
        THEN [res |-> "Panic", market |-> m, kitties |-> k, coin |-> c]
        ELSE IF ownership_transfer_result.res # "Ok"
        THEN [res |-> "OwnershipTransferFail", market |-> m,
              kitties |-> ownership_transfer_result.kitties, coin |-> c]
        ELSE [res |-> "Ok", market |-> m,
              kitties |-> ownership_transfer_result.kitties, coin |-> c]

KittyMarket_adopt(m, k, c, caller, kitty_id) ==
    LET owner == Kitties_owner_of(k, kitty_id)
        ownership_transfer_result ==
            Kitties_transfer_from(k, MarketAccount, owner, caller, kitty_id)
    IN  IF ~vec_contains(m.kitties_for_adoption, kitty_id)
        THEN [res |-> "NotForAdoption", market |-> m, kitties |-> k, coin |-> c]
        ELSE IF owner = None \/ ownership_transfer_result.res = "Panic"
        THEN [res |-> "Panic", market |-> m, kitties |-> k, coin |-> c]
        ELSE IF ownership_transfer_result.res # "Ok"
        THEN [res |-> "OwnershipTransferFail", market |-> m,
              kitties |-> ownership_transfer_result.kitties, coin |-> c]
        ELSE [res |-> "Ok",
              market |-> [m EXCEPT !.kitties_for_adoption = retain_ne(@, kitty_id)],
              kitties |-> ownership_transfer_result.kitties, coin |-> c]

\* list_for_sale with the answer of the registry's approve ignored
KittyMarket_list_for_sale_unapproved(m, k, c, caller, kitty_id, price) ==
    LET owner == Kitties_owner_of(k, kitty_id)
        approve_result ==
            Kitties_approve(k, MarketAccount, kitties_contract_account, kitty_id)
    IN  IF owner # caller
        THEN [res |-> "NotOwner", market |-> m, kitties |-> k, coin |-> c]
        ELSE IF price = 0
        THEN [res |-> "PriceIsZero", market |-> m, kitties |-> k, coin |-> c]
        ELSE IF contains(m.kitties_for_sale, kitty_id)
        THEN [res |-> "AlreadyListedForSale", market |-> m, kitties |-> k, coin |-> c]
        ELSE IF approve_result.res = "Panic"
        THEN [res |-> "Panic", market |-> m, kitties |-> k, coin |-> c]
        ELSE [res |-> "Ok",
              market |-> [m EXCEPT
                  !.kitties_for_sale = insert(@, kitty_id, price),
                  !.kitty_ids_for_sale = Append(@, kitty_id),
                  !.kitties_for_adoption = retain_ne(@, kitty_id)],
              kitties |-> approve_result.kitties, coin |-> c]

\* list_for_sale without the test of the caller
KittyMarket_list_for_sale_anyone(m, k, c, caller, kitty_id, price) ==
    LET approve_result ==
            Kitties_approve(k, MarketAccount, kitties_contract_account, kitty_id)
    IN  IF price = 0
        THEN [res |-> "PriceIsZero", market |-> m, kitties |-> k, coin |-> c]
        ELSE IF contains(m.kitties_for_sale, kitty_id)
        THEN [res |-> "AlreadyListedForSale", market |-> m, kitties |-> k, coin |-> c]
        ELSE IF approve_result.res = "Panic"
        THEN [res |-> "Panic", market |-> m, kitties |-> k, coin |-> c]
        ELSE IF approve_result.res # "Ok"
        THEN [res |-> "ListSaleNotApproved", market |-> m,
              kitties |-> approve_result.kitties, coin |-> c]
        ELSE [res |-> "Ok",
              market |-> [m EXCEPT
                  !.kitties_for_sale = insert(@, kitty_id, price),
                  !.kitty_ids_for_sale = Append(@, kitty_id),
                  !.kitties_for_adoption = retain_ne(@, kitty_id)],
              kitties |-> approve_result.kitties, coin |-> c]

\* list_for_sale without the test of the price mapping
KittyMarket_list_for_sale_again(m, k, c, caller, kitty_id, price) ==
    LET owner == Kitties_owner_of(k, kitty_id)
        approve_result ==
            Kitties_approve(k, MarketAccount, kitties_contract_account, kitty_id)
    IN  IF owner # caller
        THEN [res |-> "NotOwner", market |-> m, kitties |-> k, coin |-> c]
        ELSE IF price = 0
        THEN [res |-> "PriceIsZero", market |-> m, kitties |-> k, coin |-> c]
        ELSE IF approve_result.res = "Panic"
        THEN [res |-> "Panic", market |-> m, kitties |-> k, coin |-> c]
        ELSE IF approve_result.res # "Ok"
        THEN [res |-> "ListSaleNotApproved", market |-> m,
              kitties |-> approve_result.kitties, coin |-> c]
        ELSE [res |-> "Ok",
              market |-> [m EXCEPT
                  !.kitties_for_sale = insert(@, kitty_id, price),
                  !.kitty_ids_for_sale = Append(@, kitty_id),
                  !.kitties_for_adoption = retain_ne(@, kitty_id)],
              kitties |-> approve_result.kitties, coin |-> c]

\* list_for_sale without the test of the price
KittyMarket_list_for_sale_any_price(m, k, c, caller, kitty_id, price) ==
    LET owner == Kitties_owner_of(k, kitty_id)
        approve_result ==
            Kitties_approve(k, MarketAccount, kitties_contract_account, kitty_id)
    IN  IF owner # caller
        THEN [res |-> "NotOwner", market |-> m, kitties |-> k, coin |-> c]
        ELSE IF contains(m.kitties_for_sale, kitty_id)
        THEN [res |-> "AlreadyListedForSale", market |-> m, kitties |-> k, coin |-> c]
        ELSE IF approve_result.res = "Panic"
        THEN [res |-> "Panic", market |-> m, kitties |-> k, coin |-> c]
        ELSE IF approve_result.res # "Ok"
        THEN [res |-> "ListSaleNotApproved", market |-> m,
              kitties |-> approve_result.kitties, coin |-> c]
        ELSE [res |-> "Ok",
              market |-> [m EXCEPT
                  !.kitties_for_sale = insert(@, kitty_id, price),
                  !.kitty_ids_for_sale = Append(@, kitty_id),
                  !.kitties_for_adoption = retain_ne(@, kitty_id)],
              kitties |-> approve_result.kitties, coin |-> c]

KittyMarket_list_for_sale(m, k, c, caller, kitty_id, price) ==
    LET owner == Kitties_owner_of(k, kitty_id)
        approve_result ==
            Kitties_approve(k, MarketAccount, kitties_contract_account, kitty_id)
    IN  IF owner # caller
        THEN [res |-> "NotOwner", market |-> m, kitties |-> k, coin |-> c]
        ELSE IF price = 0
        THEN [res |-> "PriceIsZero", market |-> m, kitties |-> k, coin |-> c]
        ELSE IF contains(m.kitties_for_sale, kitty_id)
        THEN [res |-> "AlreadyListedForSale", market |-> m, kitties |-> k, coin |-> c]
        ELSE IF approve_result.res = "Panic"
        THEN [res |-> "Panic", market |-> m, kitties |-> k, coin |-> c]
        ELSE IF approve_result.res # "Ok"
        THEN [res |-> "ListSaleNotApproved", market |-> m,
              kitties |-> approve_result.kitties, coin |-> c]
        ELSE [res |-> "Ok",
              market |-> [m EXCEPT
                  !.kitties_for_sale = insert(@, kitty_id, price),
                  !.kitty_ids_for_sale = Append(@, kitty_id),
                  !.kitties_for_adoption = retain_ne(@, kitty_id)],
              kitties |-> approve_result.kitties, coin |-> c]

\* buy with the zero account taken as seller of a kitty without owner
KittyMarket_buy_default_seller(m, k, c, caller, kitty_id) ==
    IF ~contains(m.kitties_for_sale, kitty_id)
    THEN [res |-> "NotForSale", market |-> m, kitties |-> k, coin |-> c]
    ELSE
    LET price == m.kitties_for_sale[kitty_id]
        maybe_owner == Kitties_owner_of(k, kitty_id)
        seller == IF maybe_owner = None THEN ZeroAccount ELSE maybe_owner
        payment_result ==
            KittyCoin_transfer_from(c, MarketAccount, caller, seller, price)
    IN  IF payment_result.res # "Ok"
        THEN [res |-> "CoinTransferFail", market |-> m, kitties |-> k,
              coin |-> payment_result.coin]
        ELSE
        LET ownership_transfer_result ==
                Kitties_transfer_from(k, MarketAccount, seller, caller, kitty_id)
        IN  IF ownership_transfer_result.res = "Panic"
            THEN [res |-> "Panic", market |-> m, kitties |-> k, coin |-> c]
            ELSE IF ownership_transfer_result.res # "Ok"
            THEN [res |-> "OwnershipTransferFail", market |-> m,
                  kitties |-> ownership_transfer_result.kitties,
                  coin |-> payment_result.coin]
            ELSE [res |-> "Ok",
                  market |-> [m EXCEPT
                      !.kitties_for_sale = remove(@, kitty_id),
                      !.kitty_ids_for_sale = retain_ne(@, kitty_id)],
                  kitties |-> ownership_transfer_result.kitties,
                  coin |-> payment_result.coin]

KittyMarket_buy(m, k, c, caller, kitty_id) ==
    IF ~contains(m.kitties_for_sale, kitty_id)
    THEN [res |-> "NotForSale", market |-> m, kitties |-> k, coin |-> c]
    ELSE
    LET price == m.kitties_for_sale[kitty_id]
        maybe_owner == Kitties_owner_of(k, kitty_id)
    IN  IF maybe_owner = None
        THEN [res |-> "NoOwner", market |-> m, kitties |-> k, coin |-> c]
        ELSE
        LET seller == maybe_owner
            payment_result ==
                KittyCoin_transfer_from(c, MarketAccount, caller, seller, price)
        IN  IF payment_result.res # "Ok"
            THEN [res |-> "CoinTransferFail", market |-> m, kitties |-> k,
                  coin |-> payment_result.coin]
            ELSE
            LET ownership_transfer_result ==
                    Kitties_transfer_from(k, MarketAccount, seller, caller, kitty_id)
            IN  IF ownership_transfer_result.res = "Panic"
                THEN [res |-> "Panic", market |-> m, kitties |-> k, coin |-> c]
                ELSE IF ownership_transfer_result.res # "Ok"
                THEN [res |-> "OwnershipTransferFail", market |-> m,
                      kitties |-> ownership_transfer_result.kitties,
                      coin |-> payment_result.coin]
                ELSE [res |-> "Ok",
                      market |-> [m EXCEPT
                          !.kitties_for_sale = remove(@, kitty_id),
                          !.kitty_ids_for_sale = retain_ne(@, kitty_id)],
                      kitties |-> ownership_transfer_result.kitties,
                      coin |-> payment_result.coin]

(***************************************************************************)
(* The state machine.  Each action is one message called from outside by   *)
(* one of Users, with its arguments drawn from small sets.                 *)
(***************************************************************************)
\* a field of `last` the message does not have (an id it does not have is 0)
NoAccount == "-"

Call(op, caller, from, to, id, value, approved, res) ==
    [op |-> op, caller |-> caller, from |-> from, to |-> to, id |-> id,
     value |-> value, approved |-> approved, res |-> res]

RECURSIVE SumOver(_, _)
SumOver(f, S) ==
    IF S = {} THEN 0
    ELSE LET x == CHOOSE y \in S : TRUE IN f[x] + SumOver(f, S \ {x})

\* the sum of the balances of all accounts
SumBalances(c) == SumOver(c.balances, Accounts)

\* no step is taken that makes the sum of the ledger's balances exceed this
MaxSum == TotalSupply + 1

\* the storage stays within the bounds of the model
Bounded(r) ==
    /\ SumBalances(r.coin) <= MaxSum
    /\ \A a \in DOMAIN r.kitties.owned_kitties_count :
           r.kitties.owned_kitties_count[a] <= MaxCount

\* the storage after a message that returned r: a panic rolls the call back
Commit(r) ==
    /\ Bounded(r)
    /\ IF r.res = "Panic"
       THEN UNCHANGED <<coin, kitties, market>>
       ELSE /\ coin' = r.coin
            /\ kitties' = r.kitties
            /\ market' = r.market

OfCoin(x) == [res |-> x.res, coin |-> x.coin, kitties |-> kitties, market |-> market]
OfKitties(x) == [res |-> x.res, coin |-> coin, kitties |-> x.kitties, market |-> market]
OfMint(x) == [res |-> x.res, coin |-> x.coin, kitties |-> x.kitties, market |-> market]

\* the deployer of the three contracts
Deployer == "alice"

Init ==
    /\ coin = KittyCoin_new(Deployer, TotalSupply)
    /\ kitties = Kitties_new
    /\ market = KittyMarket_new
    /\ last = Call("new", Deployer, NoAccount, NoAccount, 0, 0, FALSE, "Ok")
    /\ listed_by = EmptyMapping

(* KittyCoin messages *)
CoinTransfer(callers, dests) ==
    \E caller \in callers, to \in dests, value \in Values :
        LET r == KittyCoin_transfer(coin, caller, to, value)
        IN  /\ Commit(OfCoin(r))
            /\ last' = Call("coin_transfer", caller, NoAccount, to, 0, value, FALSE, r.res)
            /\ UNCHANGED listed_by

CoinApprove(callers, spenders, values) ==
    \E caller \in callers, spender \in spenders, value \in values :
        LET r == KittyCoin_approve(coin, caller, spender, value)
        IN  /\ Commit(OfCoin(r))
            /\ last' = Call("coin_approve", caller, NoAccount, spender, 0, value, FALSE, r.res)
            /\ UNCHANGED listed_by

CoinTransferFrom ==
    \E caller \in Users, from \in Users, to \in Users, value \in Values :
        LET r == KittyCoin_transfer_from(coin, caller, from, to, value)
        IN  /\ Commit(OfCoin(r))
            /\ last' = Call("coin_transfer_from", caller, from, to, 0, value, FALSE, r.res)
            /\ UNCHANGED listed_by

(* Kitties messages *)
Mint(callers, ids) ==
    \E caller \in callers, id \in ids :
        LET r == Kitties_mint(kitties, coin, caller, id)
        IN  /\ Commit(OfMint(r))
            /\ last' = Call("mint", caller, NoAccount, NoAccount, id, 0, FALSE, r.res)
            /\ UNCHANGED listed_by

Transfer(dests, ids) ==
    \E caller \in Users, to \in dests, id \in ids :
        LET r == Kitties_transfer(kitties, caller, to, id)
        IN  /\ Commit(OfKitties(r))
            /\ last' = Call("transfer", caller, NoAccount, to, id, 0, FALSE, r.res)
            /\ UNCHANGED listed_by

TransferFrom(ids) ==
    \E caller \in Users, from \in Users, to \in Users \cup {ZeroAccount}, id \in ids :
        LET r == Kitties_transfer_from(kitties, caller, from, to, id)
        IN  /\ Commit(OfKitties(r))
            /\ last' = Call("transfer_from", caller, from, to, id, 0, FALSE, r.res)
            /\ UNCHANGED listed_by

Approve(ids) ==
    \E caller \in Users, to \in Users \cup {ZeroAccount}, id \in ids :
        LET r == Kitties_approve(kitties, caller, to, id)
        IN  /\ Commit(OfKitties(r))
            /\ last' = Call("approve", caller, NoAccount, to, id, 0, FALSE, r.res)
            /\ UNCHANGED listed_by

SetApprovalForAll(operators) ==
    \E caller \in Users, to \in operators, approved \in BOOLEAN :
        LET r == Kitties_set_approval_for_all(kitties, caller, to, approved)
        IN  /\ Commit(OfKitties(r))
            /\ last' = Call("set_approval_for_all", caller, NoAccount, to, 0, 0, approved, r.res)
            /\ UNCHANGED listed_by

Burn(ids) ==
    \E caller \in Users, id \in ids :
        LET r == Kitties_burn(kitties, caller, id)
        IN  /\ Commit(OfKitties(r))
            /\ last' = Call("burn", caller, NoAccount, NoAccount, id, 0, FALSE, r.res)
            /\ UNCHANGED listed_by

(* KittyMarket messages *)
ListForAdoption(ids) ==
    \E caller \in Users, id \in ids :
        LET r == KittyMarket_list_for_adoption(market, kitties, coin, caller, id)
        IN  /\ Commit(r)
            /\ last' = Call("list_for_adoption", caller, NoAccount, NoAccount, id, 0, FALSE, r.res)
            /\ UNCHANGED listed_by

Adopt(ids) ==
    \E caller \in Users, id \in ids :
        LET r == KittyMarket_adopt(market, kitties, coin, caller, id)
        IN  /\ Commit(r)
            /\ last' = Call("adopt", caller, NoAccount, NoAccount, id, 0, FALSE, r.res)
            /\ UNCHANGED listed_by

ListForSale(ids) ==
    \E caller \in Users, id \in ids, price \in Values :
        LET r == KittyMarket_list_for_sale(market, kitties, coin, caller, id, price)
        IN  /\ Commit(r)
            /\ last' = Call("list_for_sale", caller, NoAccount, NoAccount, id, price, FALSE, r.res)
            /\ listed_by' = IF r.res = "Ok" THEN insert(listed_by, id, caller) ELSE listed_by

Buy(ids) ==
    \E caller \in Users, id \in ids :
        LET r == KittyMarket_buy(market, kitties, coin, caller, id)
        IN  /\ Commit(r)
            /\ last' = Call("buy", caller, NoAccount, NoAccount, id, 0, FALSE, r.res)
            /\ listed_by' = IF r.res = "Ok" THEN remove(listed_by, id) ELSE listed_by

\* the ledger alone
NextCoin ==
    \/ CoinTransfer(Users, Users)
    \/ CoinApprove(Users, Users, Values)
    \/ CoinTransferFrom

SpecCoin == Init /\ [][NextCoin]_vars

\* the registry; the deployer, who holds all the coins, is the account that
\* mints, after approving mint_price to the registry (a mint without that
\* allowance is the mint that cannot pay)
NextKitties ==
    \/ CoinApprove({Deployer}, {KittiesAccount}, {mint_price})
    \/ Mint({Deployer}, KittyIds)
    \/ Transfer(Users \cup {ZeroAccount}, KittyIds)
    \/ TransferFrom(KittyIds)
    \/ Approve(KittyIds)
    \/ SetApprovalForAll(Users)
    \/ Burn(KittyIds)

SpecKitties == Init /\ [][NextKitties]_vars

\* the three contracts together; the deployer mints and funds the other
\* user, who is the account that approves coins to the marketplace and can pay
\* for a kitty (a buy by the deployer is the buy that cannot pay)
Next ==
    \/ CoinTransfer({Deployer}, Users \ {Deployer})
    \/ CoinApprove({Deployer}, {KittiesAccount}, {mint_price})
    \/ CoinApprove(Users \ {Deployer}, {MarketAccount}, Values)
    \/ Mint({Deployer}, MarketKittyIds)
    \/ Transfer(Users, MarketKittyIds)
    \/ Burn(MarketKittyIds)
    \/ SetApprovalForAll({MarketAccount})
    \/ ListForAdoption(MarketKittyIds)
    \/ Adopt(MarketKittyIds)
    \/ ListForSale(MarketKittyIds)
    \/ Buy(MarketKittyIds)

Spec == Init /\ [][Next]_vars

(***************************************************************************)
(* Properties.                                                             *)
(***************************************************************************)
RegistryOps ==
    {"mint", "transfer", "transfer_from", "approve", "set_approval_for_all", "burn"}

\* the kitty ids owned by account a
OwnedBy(k, a) == {i \in DOMAIN k.kitty_owner : k.kitty_owner[i] = a}

\* C1: the sum of the balances of all accounts equals total_supply() in
\* every state reachable by transfer, approve and transfer_from calls.
C1_LedgerConservation ==
    SumBalances(coin) = KittyCoin_total_supply(coin)

\* C2: for every account a, balance_of(a) is the number of kitty ids whose
\* owner is a.
C2_CountMatchesOwnership ==
    \A a \in Accounts :
        Kitties_balance_of(kitties, a) = Cardinality(OwnedBy(kitties, a))

\* C3: after any call of buy the payment has happened if and only if the
\* kitty was delivered (buy returned Ok), and a buy that returns
\* OwnershipTransferFail leaves the ledger as it was before the call.
C3_PurchaseAtomicity ==
    [][ last'.op = "buy" =>
          /\ (coin'.balances # coin.balances) <=> (last'.res = "Ok")
          /\ last'.res = "OwnershipTransferFail" => coin' = coin ]_vars

\* C4: no kitty id is listed both for sale (buy does not answer NotForSale)
\* and for adoption (adopt does not answer NotForAdoption).
C4_ListingMutualExclusion ==
    \A id \in KittyIds :
        ~(contains(market.kitties_for_sale, id)
          /\ vec_contains(market.kitties_for_adoption, id))

\* C5: for an existing kitty owned by o and a non-zero destination,
\* transfer(to, id) and transfer_from(o, to, id) succeed if and only if the
\* caller is o, the approved account of id or an operator of o; any other
\* caller gets NotApproved with the registry unchanged; on success the
\* owner is `to`, o's count is one lower and to's count one higher.
C5_TransferAuthorization ==
    [][ LET c == last'
            o == Kitties_owner_of(kitties, c.id)
            authorized ==
                \/ c.caller = o
                \/ c.caller = Kitties_get_approved(kitties, c.id)
                \/ Kitties_is_approved_for_all(kitties, o, c.caller)
        IN  ( /\ c.op \in {"transfer", "transfer_from"}
              /\ exists(kitties, c.id)
              /\ c.to # ZeroAccount
              /\ c.to # o
              /\ c.op = "transfer_from" => c.from = o )
            => /\ (c.res = "Ok") <=> authorized
               /\ ~authorized => (c.res = "NotApproved" /\ kitties' = kitties)
               /\ c.res = "Ok" =>
                    /\ Kitties_owner_of(kitties', c.id) = c.to
                    /\ Kitties_balance_of(kitties', o) = Kitties_balance_of(kitties, o) - 1
                    /\ Kitties_balance_of(kitties', c.to) = Kitties_balance_of(kitties, c.to) + 1
      ]_vars

\* C6: immediately after every successful transfer or transfer_from of a
\* kitty, that kitty has no approved account.
\* So the caller can move it again only as its owner or as an operator of
\* its owner.
C6_ApprovalClearedByTransfer ==
    [][ (last'.op \in {"transfer", "transfer_from"} /\ last'.res = "Ok")
          => /\ Kitties_get_approved(kitties', last'.id) = None
             /\ approved_or_owner(kitties', last'.caller, last'.id)
                  => \/ last'.caller = Kitties_owner_of(kitties', last'.id)
                     \/ approved_for_all(kitties',
                            Kitties_owner_of(kitties', last'.id), last'.caller)
      ]_vars

\* an account that is neither `from` nor an operator of `from` has moved a
\* kitty from `from` to another account with transfer_from, in a registry
\* whose counts are right: it was the approved account of the kitty
C6_Witness ==
    /\ last.op = "transfer_from"
    /\ last.res = "Ok"
    /\ last.caller # last.from
    /\ last.to # last.from
    /\ Kitties_owner_of(kitties, last.id) = last.to
    /\ ~Kitties_is_approved_for_all(kitties, last.from, last.caller)
    /\ C2_CountMatchesOwnership
    /\ Kitties_get_approved(kitties, last.id) = None

\* C7: a registry message that returns an Err value leaves the registry's
\* storage exactly as it was before the call.
C7_RegistryErrKeepsState ==
    [][ (last'.op \in RegistryOps /\ last'.res \notin {"Ok", "Panic"})
          => kitties' = kitties ]_vars

\* C8: minting an id that already has an owner returns TokenExists for every
\* caller and leaves the registry and the ledger unchanged.
C8_MintExistingFails ==
    [][ (last'.op = "mint" /\ exists(kitties, last'.id))
          => (last'.res = "TokenExists" /\ kitties' = kitties /\ coin' = coin) ]_vars

\* C9: after every successful list_for_sale or list_for_adoption the approved
\* account of the kitty is the marketplace contract's own account.
C9_ListingApprovesMarket ==
    [][ (last'.op \in {"list_for_sale", "list_for_adoption"} /\ last'.res = "Ok")
          => Kitties_get_approved(kitties', last'.id) = MarketAccount ]_vars

\* C10: a kitty that is listed for sale and still carries the approval made at
\* listing (it was not transferred or burned since) is delivered to any other
\* account that calls buy with a ledger balance and an allowance to the
\* marketplace of at least the price.
C10_ListedKittyCanBeBought ==
    [][ LET c == last'
            price == market.kitties_for_sale[c.id]
        IN  ( /\ c.op = "buy"
              /\ contains(market.kitties_for_sale, c.id)
              /\ exists(kitties, c.id)
              /\ Kitties_get_approved(kitties, c.id) = kitties_contract_account
              /\ c.caller # Kitties_owner_of(kitties, c.id)
              /\ KittyCoin_balance_of(coin, c.caller) >= price
              /\ coin.allowances[<<c.caller, MarketAccount>>] >= price )
            => c.res = "Ok" ]_vars

\* C11: for every ledger transfer_from(from, to, value), whatever it returns,
\* the allowance of (from, caller) decreases by exactly the amount debited
\* from the balance of `from`, and a call that returns AllowanceTooLow or
\* BalanceTooLow leaves that allowance unchanged.
C11_AllowanceFollowsDebit ==
    [][ LET c == last'
            pair == <<c.from, c.caller>>
        IN  c.op = "coin_transfer_from" =>
              /\ coin.allowances[pair] - coin'.allowances[pair]
                   = KittyCoin_balance_of(coin, c.from) - KittyCoin_balance_of(coin', c.from)
              /\ c.res \in {"AllowanceTooLow", "BalanceTooLow"}
                   => coin'.allowances[pair] = coin.allowances[pair] ]_vars

\* the sum of balance_of(a) over all accounts a
SumCounts(k) ==
    SumOver([a \in Accounts |-> Kitties_balance_of(k, a)], Accounts)

\* C12: the sum of balance_of(a) over all accounts equals the number of kitty
\* ids that have an owner.
C12_TotalCountMatchesOwned ==
    SumCounts(kitties) = Cardinality(DOMAIN kitties.kitty_owner)

\* some kitty has an owner and the count of some account is not the number
\* of kitties it owns: a count was taken from an account that did not own
\* the kitty moved
C12_Witness ==
    /\ Cardinality(DOMAIN kitties.kitty_owner) >= 1
    /\ last.op = "transfer_from"
    /\ last.res = "Ok"
    /\ ~C2_CountMatchesOwnership

\* C13: no kitty is owned by the zero account and no kitty's approved account
\* is the zero account.
C13_ZeroAccountNeverRecorded ==
    /\ \A id \in DOMAIN kitties.kitty_owner :
           Kitties_owner_of(kitties, id) # ZeroAccount
    /\ \A id \in DOMAIN kitties.token_approvals :
           Kitties_get_approved(kitties, id) # ZeroAccount

\* the owner of a kitty has asked to transfer it to the zero account
C13_Witness ==
    /\ last.op = "transfer"
    /\ last.to = ZeroAccount
    /\ last.res = "NotAllowed"

\* C14: when the id has no owner and the ledger's transfer_from(caller,
\* registry account, mint_price) succeeds, mint(id) returns Ok, the caller
\* owns the id, the caller's count is one higher and exactly mint_price has
\* moved in the ledger from the caller to the registry's account; when the
\* ledger call fails, mint returns CoinTransferFail, no kitty is created and
\* no count changes.
C14_MintPaysAndCreates ==
    [][ LET c == last'
            payment_result ==
                KittyCoin_transfer_from(coin, KittiesAccount, c.caller,
                                        KittiesAccount, mint_price)
        IN  c.op = "mint" =>
              /\ (~exists(kitties, c.id) /\ payment_result.res = "Ok") =>
                    /\ c.res = "Ok"
                    /\ Kitties_owner_of(kitties', c.id) = c.caller
                    /\ Kitties_balance_of(kitties', c.caller)
                         = Kitties_balance_of(kitties, c.caller) + 1
                    /\ \A a \in Accounts :
                         KittyCoin_balance_of(coin', a) =
                             KittyCoin_balance_of(coin, a)
                             - (IF a = c.caller THEN mint_price ELSE 0)
                             + (IF a = KittiesAccount THEN mint_price ELSE 0)
              /\ payment_result.res # "Ok" =>
                    /\ c.res = "CoinTransferFail"
                    /\ kitties'.kitty_owner = kitties.kitty_owner
                    /\ kitties'.owned_kitties_count = kitties.owned_kitties_count
      ]_vars

\* a mint has been paid and has created the kitty while the caller already
\* owned another one
C14_Witness ==
    /\ last.op = "mint"
    /\ last.res = "Ok"
    /\ Kitties_owner_of(kitties, last.id) = last.caller
    /\ Kitties_balance_of(kitties, last.caller) = 2
    /\ KittyCoin_balance_of(coin, KittiesAccount) >= mint_price

\* C15: after a successful buy(id) at listed price p from the owner s the
\* registry reports, exactly p has moved in the ledger from the buyer to s,
\* the buyer's allowance to the marketplace is p lower, the buyer owns the
\* id, and the id is not for sale: a second buy(id) returns NotForSale.
C15_BuyMovesPriceAndKitty ==
    [][ LET c == last'
            p == market.kitties_for_sale[c.id]
            s == Kitties_owner_of(kitties, c.id)
            pair == <<c.caller, MarketAccount>>
        IN  (c.op = "buy" /\ c.res = "Ok") =>
              /\ \A a \in Accounts :
                   KittyCoin_balance_of(coin', a) =
                       KittyCoin_balance_of(coin, a)
                       - (IF a = c.caller THEN p ELSE 0)
                       + (IF a = s THEN p ELSE 0)
              /\ coin'.allowances[pair] = coin.allowances[pair] - p
              /\ Kitties_owner_of(kitties', c.id) = c.caller
              /\ ~contains(market'.kitties_for_sale, c.id)
              /\ KittyMarket_buy(market', kitties', coin', c.caller, c.id).res
                   = "NotForSale"
      ]_vars

\* C16 as stated: approve(to, id) on a kitty that already has an approved
\* account returns CannotInsert for every caller and leaves get_approved(id)
\* unchanged.
C16_ApproveTakenSlotCannotInsert ==
    [][ LET c == last'
        IN  (c.op = "approve" /\ contains(kitties.token_approvals, c.id)) =>
              /\ c.res = "CannotInsert"
              /\ Kitties_get_approved(kitties', c.id)
                   = Kitties_get_approved(kitties, c.id) ]_vars

\* C16 amended: approve(to, id) on an existing kitty that already has an
\* approved account never returns Ok and leaves get_approved(id) unchanged:
\* it returns CannotInsert when the caller is the owner or an operator of the
\* owner and `to` is not the zero account, and NotAllowed otherwise.  The
\* approved account of a kitty changes only by a transfer or transfer_from
\* of that kitty, which clears it, or by an approve of that kitty while it
\* has none.
C16_ApproveSingleSlot ==
    [][ LET c == last'
            o == Kitties_owner_of(kitties, c.id)
            allowed == o = c.caller \/ approved_for_all(kitties, o, c.caller)
        IN  /\ ( /\ c.op = "approve"
                 /\ exists(kitties, c.id)
                 /\ contains(kitties.token_approvals, c.id) ) =>
                  /\ c.res = (IF allowed /\ c.to # ZeroAccount
                              THEN "CannotInsert" ELSE "NotAllowed")
                  /\ Kitties_get_approved(kitties', c.id)
                       = Kitties_get_approved(kitties, c.id)
            /\ \A id \in KittyIds :
                  Kitties_get_approved(kitties', id) # Kitties_get_approved(kitties, id) =>
                    /\ c.id = id
                    /\ \/ /\ c.op \in {"transfer", "transfer_from"}
                          /\ Kitties_get_approved(kitties', id) = None
                       \/ /\ c.op = "approve"
                          /\ Kitties_get_approved(kitties, id) = None
                          /\ Kitties_get_approved(kitties', id) = c.to
      ]_vars

\* the owner of a kitty that has an approved account has asked to approve
\* another account
C16_Witness ==
    /\ last.op = "approve"
    /\ last.res = "CannotInsert"
    /\ last.caller = Kitties_owner_of(kitties, last.id)
    /\ Kitties_get_approved(kitties, last.id) \notin {None, last.to}

\* C17: approve(to, id) on an existing kitty records an approval only when
\* the caller is the owner or an operator of the owner: any other caller gets
\* NotAllowed with get_approved(id) unchanged, and an owner or operator
\* naming a non-zero `to` on a kitty without approved account gets Ok with
\* get_approved(id) = to.
C17_ApproveByOwnerOrOperator ==
    [][ LET c == last'
            o == Kitties_owner_of(kitties, c.id)
            allowed == o = c.caller \/ Kitties_is_approved_for_all(kitties, o, c.caller)
        IN  (c.op = "approve" /\ exists(kitties, c.id)) =>
              /\ ~allowed =>
                    /\ c.res = "NotAllowed"
                    /\ Kitties_get_approved(kitties', c.id)
                         = Kitties_get_approved(kitties, c.id)
              /\ ( /\ allowed
                   /\ c.to # ZeroAccount
                   /\ Kitties_get_approved(kitties, c.id) = None ) =>
                    /\ c.res = "Ok"
                    /\ Kitties_get_approved(kitties', c.id) = c.to
              /\ kitties'.token_approvals # kitties.token_approvals => allowed
      ]_vars

\* an operator of the owner, not the owner, has approved an account
C17_Witness ==
    /\ last.op = "approve"
    /\ last.res = "Ok"
    /\ last.caller # Kitties_owner_of(kitties, last.id)
    /\ Kitties_is_approved_for_all(kitties, Kitties_owner_of(kitties, last.id), last.caller)
    /\ Kitties_get_approved(kitties, last.id) = last.to

\* C18: set_approval_for_all(operator, approved) with operator = caller
\* returns NotAllowed and changes nothing; otherwise it returns Ok, afterwards
\* is_approved_for_all(caller, operator) = approved whatever it was before,
\* a repeated call changes nothing more, and no other (owner, operator) pair,
\* kitty owner, count or per-kitty approval changes.
C18_SetApprovalForAll ==
    [][ LET c == last'
            pair == <<c.caller, c.to>>
        IN  c.op = "set_approval_for_all" =>
              /\ c.to = c.caller => (c.res = "NotAllowed" /\ kitties' = kitties)
              /\ c.to # c.caller =>
                    /\ c.res = "Ok"
                    /\ Kitties_is_approved_for_all(kitties', c.caller, c.to) = c.approved
                    /\ Kitties_set_approval_for_all(kitties', c.caller, c.to, c.approved)
                         = [res |-> "Ok", kitties |-> kitties']
                    /\ kitties'.operator_approvals \ {pair}
                         = kitties.operator_approvals \ {pair}
                    /\ kitties'.kitty_owner = kitties.kitty_owner
                    /\ kitties'.owned_kitties_count = kitties.owned_kitties_count
                    /\ kitties'.token_approvals = kitties.token_approvals
      ]_vars

\* an operator approval has been withdrawn while another one stays
C18_Witness ==
    /\ last.op = "set_approval_for_all"
    /\ last.res = "Ok"
    /\ ~last.approved
    /\ ~Kitties_is_approved_for_all(kitties, last.caller, last.to)
    /\ kitties.operator_approvals # {}

\* C19: burn(id) of an id without owner returns TokenNotFound, and by a caller
\* other than the owner (the approved account and the operators included)
\* NotOwner, both with the registry unchanged; a burn that succeeds was
\* called by the owner and leaves the id without owner and the owner's count
\* one lower.
C19_BurnOnlyByOwner ==
    [][ LET c == last'
            o == Kitties_owner_of(kitties, c.id)
        IN  c.op = "burn" =>
              /\ ~exists(kitties, c.id) =>
                    (c.res = "TokenNotFound" /\ kitties' = kitties)
              /\ (exists(kitties, c.id) /\ c.caller # o) =>
                    (c.res = "NotOwner" /\ kitties' = kitties)
              /\ c.res = "Ok" =>
                    /\ c.caller = o
                    /\ Kitties_owner_of(kitties', c.id) = None
                    /\ Kitties_balance_of(kitties', o) = Kitties_balance_of(kitties, o) - 1
      ]_vars

\* the approved account of a kitty, also an operator of its owner, has asked
\* to burn it
C19_Witness ==
    /\ last.op = "burn"
    /\ last.res = "NotOwner"
    /\ Kitties_get_approved(kitties, last.id) = last.caller
    /\ Kitties_is_approved_for_all(kitties, Kitties_owner_of(kitties, last.id), last.caller)

\* C20: ledger transfer(to, value) by a caller whose balance is less than
\* value returns BalanceTooLow and changes no balance and no allowance;
\* otherwise, for `to` other than the caller, it returns Ok, the caller's
\* balance is value lower, to's balance is value higher and no other balance
\* and no allowance changes.
C20_LedgerTransfer ==
    [][ LET c == last'
        IN  c.op = "coin_transfer" =>
              /\ KittyCoin_balance_of(coin, c.caller) < c.value =>
                    (c.res = "BalanceTooLow" /\ coin' = coin)
              /\ (KittyCoin_balance_of(coin, c.caller) >= c.value /\ c.to # c.caller) =>
                    /\ c.res = "Ok"
                    /\ \A a \in Accounts :
                         KittyCoin_balance_of(coin', a) =
                             KittyCoin_balance_of(coin, a)
                             - (IF a = c.caller THEN c.value ELSE 0)
                             + (IF a = c.to THEN c.value ELSE 0)
                    /\ coin'.allowances = coin.allowances
      ]_vars

\* coins have moved to another account that already held some
C20_Witness ==
    /\ last.op = "coin_transfer"
    /\ last.res = "Ok"
    /\ last.to # last.caller
    /\ last.value >= 1
    /\ KittyCoin_balance_of(coin, last.to) > last.value

\* C21: ledger transfer_from(from, to, value) with the allowance of
\* (from, caller) less than value returns AllowanceTooLow and changes no
\* balance and no allowance; a successful call debits `from` by value,
\* credits `to` by value, changes no other balance and lowers the allowance
\* of (from, caller) by value.
C21_LedgerTransferFrom ==
    [][ LET c == last'
            pair == <<c.from, c.caller>>
        IN  c.op = "coin_transfer_from" =>
              /\ coin.allowances[pair] < c.value =>
                    (c.res = "AllowanceTooLow" /\ coin' = coin)
              /\ c.res = "Ok" =>
                    /\ \A a \in Accounts :
                         KittyCoin_balance_of(coin', a) =
                             KittyCoin_balance_of(coin, a)
                             - (IF a = c.from THEN c.value ELSE 0)
                             + (IF a = c.to THEN c.value ELSE 0)
                    /\ coin'.allowances[pair] = coin.allowances[pair] - c.value
      ]_vars

\* C22: ledger approve(spender, value) returns Ok and sets the allowance of
\* (caller, spender) to value whatever it was; no balance, no other allowance
\* and not total_supply changes.
C22_LedgerApprove ==
    [][ LET c == last'
            pair == <<c.caller, c.to>>
        IN  c.op = "coin_approve" =>
              /\ c.res = "Ok"
              /\ coin'.allowances[pair] = c.value
              /\ \A q \in DOMAIN coin.allowances :
                   q # pair => coin'.allowances[q] = coin.allowances[q]
              /\ coin'.balances = coin.balances
              /\ KittyCoin_total_supply(coin') = KittyCoin_total_supply(coin)
      ]_vars

\* an allowance has been set to 0 while another allowance and the balances of
\* two accounts are not 0
C22_Witness ==
    /\ last.op = "coin_approve"
    /\ last.value = 0
    /\ coin.allowances[<<last.caller, last.to>>] = 0
    /\ \E q \in DOMAIN coin.allowances : coin.allowances[q] >= 1
    /\ \A a \in Users : KittyCoin_balance_of(coin, a) >= 1

\* C23: list_for_sale(id, p) and list_for_adoption(id) by a caller that is
\* not the owner the registry reports for id (an id without owner included)
\* return NotOwner, create no listing and make no approval in the registry.
C23_OnlyOwnerLists ==
    [][ LET c == last'
        IN  ( /\ c.op \in {"list_for_sale", "list_for_adoption"}
              /\ Kitties_owner_of(kitties, c.id) # c.caller ) =>
              /\ c.res = "NotOwner"
              /\ market' = market
              /\ kitties' = kitties ]_vars

\* an account has asked to list for sale a kitty of another account, whose
\* operator the marketplace is and which is not listed
C23_Witness ==
    /\ last.op = "list_for_sale"
    /\ last.value >= 1
    /\ last.res = "NotOwner"
    /\ exists(kitties, last.id)
    /\ Kitties_is_approved_for_all(kitties, Kitties_owner_of(kitties, last.id), MarketAccount)
    /\ Kitties_get_approved(kitties, last.id) = None
    /\ ~contains(market.kitties_for_sale, last.id)

\* C24: list_for_sale(id, 0) by the owner returns PriceIsZero and creates no
\* listing and no approval in the registry, and every for-sale listing has a
\* price greater than zero.
C24_PriceNeverZero ==
    [][ LET c == last'
        IN  /\ ( /\ c.op = "list_for_sale"
                 /\ Kitties_owner_of(kitties, c.id) = c.caller
                 /\ c.value = 0 ) =>
                  /\ c.res = "PriceIsZero"
                  /\ market' = market
                  /\ kitties' = kitties
            /\ \A id \in DOMAIN market'.kitties_for_sale :
                  market'.kitties_for_sale[id] > 0 ]_vars

\* the owner of a kitty that is not listed, with the marketplace as its
\* operator, has asked to list it at price 0
C24_Witness ==
    /\ last.op = "list_for_sale"
    /\ last.value = 0
    /\ last.res = "PriceIsZero"
    /\ Kitties_is_approved_for_all(kitties, last.caller, MarketAccount)
    /\ Kitties_get_approved(kitties, last.id) = None
    /\ ~contains(market.kitties_for_sale, last.id)

\* C25 (as stated): list_for_sale(id, p2) by the owner on a kitty already
\* for sale returns AlreadyListedForSale for every p2 and the listed price
\* stays; list_for_adoption(id) by the owner on a kitty already for adoption
\* returns AlreadyListedForAdoption and the adoption list stays; no id is
\* twice in the for-sale list or in the adoption list.
C25_DuplicateListingRejected ==
    [][ LET c == last'
        IN  /\ ( /\ c.op = "list_for_sale"
                 /\ Kitties_owner_of(kitties, c.id) = c.caller
                 /\ contains(market.kitties_for_sale, c.id) ) =>
                  /\ c.res = "AlreadyListedForSale"
                  /\ market'.kitties_for_sale = market.kitties_for_sale
            /\ ( /\ c.op = "list_for_adoption"
                 /\ Kitties_owner_of(kitties, c.id) = c.caller
                 /\ vec_contains(market.kitties_for_adoption, c.id) ) =>
                  /\ c.res = "AlreadyListedForAdoption"
                  /\ market'.kitties_for_adoption = market.kitties_for_adoption
            /\ \A i, j \in DOMAIN market'.kitty_ids_for_sale :
                  i # j => market'.kitty_ids_for_sale[i] # market'.kitty_ids_for_sale[j]
            /\ \A i, j \in DOMAIN market'.kitties_for_adoption :
                  i # j => market'.kitties_for_adoption[i] # market'.kitties_for_adoption[j] ]_vars

\* C25 (amended): as above, except that list_for_sale(id, p2) on a kitty
\* already for sale returns AlreadyListedForSale for p2 > 0 and PriceIsZero
\* for p2 = 0, the listed price staying what it was in both cases.
C25_DuplicateListingKeepsPrice ==
    [][ LET c == last'
        IN  /\ ( /\ c.op = "list_for_sale"
                 /\ Kitties_owner_of(kitties, c.id) = c.caller
                 /\ contains(market.kitties_for_sale, c.id) ) =>
                  /\ c.res = (IF c.value = 0 THEN "PriceIsZero" ELSE "AlreadyListedForSale")
                  /\ market'.kitties_for_sale = market.kitties_for_sale
            /\ ( /\ c.op = "list_for_adoption"
                 /\ Kitties_owner_of(kitties, c.id) = c.caller
                 /\ vec_contains(market.kitties_for_adoption, c.id) ) =>
                  /\ c.res = "AlreadyListedForAdoption"
                  /\ market'.kitties_for_adoption = market.kitties_for_adoption
            /\ \A i, j \in DOMAIN market'.kitty_ids_for_sale :
                  i # j => market'.kitty_ids_for_sale[i] # market'.kitty_ids_for_sale[j]
            /\ \A i, j \in DOMAIN market'.kitties_for_adoption :
                  i # j => market'.kitties_for_adoption[i] # market'.kitties_for_adoption[j] ]_vars

\* the owner of a kitty that is for sale, with the marketplace as its
\* operator, has asked to list it for sale again at a price above zero
C25_Witness ==
    /\ last.op = "list_for_sale"
    /\ last.value >= 1
    /\ last.res = "AlreadyListedForSale"
    /\ Kitties_owner_of(kitties, last.id) = last.caller
    /\ Kitties_is_approved_for_all(kitties, last.caller, MarketAccount)
    /\ contains(market.kitties_for_sale, last.id)
    /\ market.kitty_ids_for_sale = <<last.id>>

\* C26: buy(id) on a kitty that is not for sale returns NotForSale and
\* adopt(id) on a kitty that is not for adoption returns NotForAdoption, for
\* every caller, and marketplace, ledger and registry stay as they were.
C26_UnlistedNotTraded ==
    [][ LET c == last'
        IN  /\ ( c.op = "buy" /\ ~contains(market.kitties_for_sale, c.id) ) =>
                  /\ c.res = "NotForSale"
                  /\ market' = market /\ coin' = coin /\ kitties' = kitties
            /\ ( c.op = "adopt" /\ ~vec_contains(market.kitties_for_adoption, c.id) ) =>
                  /\ c.res = "NotForAdoption"
                  /\ market' = market /\ coin' = coin /\ kitties' = kitties ]_vars

\* an account has asked to adopt a kitty that is not on the adoption list,
\* owned by another account whose operator the marketplace is
C26_Witness ==
    /\ last.op = "adopt"
    /\ last.res = "NotForAdoption"
    /\ exists(kitties, last.id)
    /\ Kitties_owner_of(kitties, last.id) # last.caller
    /\ Kitties_is_approved_for_all(kitties, Kitties_owner_of(kitties, last.id), MarketAccount)

\* C27: buy(id) on a for-sale kitty that has no owner in the registry
\* returns NoOwner, and ledger and registry stay as they were.
C27_BuyWithoutOwner ==
    [][ LET c == last'
        IN  ( /\ c.op = "buy"
              /\ contains(market.kitties_for_sale, c.id)
              /\ Kitties_owner_of(kitties, c.id) = None ) =>
              /\ c.res = "NoOwner"
              /\ coin' = coin
              /\ kitties' = kitties ]_vars

\* a buyer that holds the price and has allowed it to the marketplace has
\* asked to buy a listed kitty that was burned
C27_Witness ==
    /\ last.op = "buy"
    /\ last.res = "NoOwner"
    /\ contains(market.kitties_for_sale, last.id)
    /\ KittyCoin_balance_of(coin, last.caller) >= market.kitties_for_sale[last.id]
    /\ coin.allowances[<<last.caller, MarketAccount>>] >= market.kitties_for_sale[last.id]

\* C28: after a successful adopt(id) the caller owns id, id is not on the
\* adoption list, and no ledger balance and no ledger allowance has changed.
C28_AdoptIsFree ==
    [][ LET c == last'
        IN  ( c.op = "adopt" /\ c.res = "Ok" ) =>
              /\ vec_contains(market.kitties_for_adoption, c.id)
              /\ Kitties_owner_of(kitties, c.id) # None
              /\ Kitties_owner_of(kitties', c.id) = c.caller
              /\ ~vec_contains(market'.kitties_for_adoption, c.id)
              /\ coin' = coin ]_vars

\* bob has adopted a kitty from alice (the marketplace is alice's operator
\* and not bob's, and the adopted kitty has no approved account)
C28_Witness ==
    /\ last.op = "adopt"
    /\ last.res = "Ok"
    /\ last.caller = "bob"
    /\ Kitties_owner_of(kitties, last.id) = "bob"
    /\ Kitties_balance_of(kitties, "bob") = 1
    /\ Kitties_balance_of(kitties, "alice") = 0
    /\ Kitties_is_approved_for_all(kitties, "alice", MarketAccount)
    /\ ~Kitties_is_approved_for_all(kitties, "bob", MarketAccount)
    /\ market.kitties_for_adoption = << >>

\* C29: no message of the ledger, the registry or the marketplace panics:
\* every call returns Ok or one of the named errors.
C29_NoPanic ==
    last.res # "Panic"

\* C30: transfer_from(from, to, id) by the owner, the approved account or an
\* operator of the owner, with `from` not the owner of id, does not return
\* Ok and does not change balance_of(from).
C30_TransferFromNamesOwner ==
    [][ LET c == last'
            o == Kitties_owner_of(kitties, c.id)
        IN  ( /\ c.op = "transfer_from"
              /\ exists(kitties, c.id)
              /\ c.from # o
              /\ \/ c.caller = o
                 \/ c.caller = Kitties_get_approved(kitties, c.id)
                 \/ Kitties_is_approved_for_all(kitties, o, c.caller) ) =>
              /\ c.res # "Ok"
              /\ Kitties_balance_of(kitties', c.from) = Kitties_balance_of(kitties, c.from) ]_vars

\* C31: a kitty id that has an approved account has an owner.
C31_ApprovalOnlyForExisting ==
    \A id \in KittyIds :
        Kitties_get_approved(kitties, id) # None => Kitties_owner_of(kitties, id) # None

\* C32: the ids of the for-sale vector are exactly the ids that have a price
\* in the for-sale mapping.
C32_ForSaleStructuresAgree ==
    {market.kitty_ids_for_sale[i] : i \in DOMAIN market.kitty_ids_for_sale}
        = DOMAIN market.kitties_for_sale

\* C34 (as stated): list_for_sale and list_for_adoption by the owner of a
\* kitty return Ok only if the marketplace is an operator of the owner and
\* the kitty has no approved account; in every other state they return
\* ListSaleNotApproved / ListAdoptNotApproved and create no listing.
C34_ListingNeedsOperator ==
    [][ LET c == last'
            granted ==
                /\ Kitties_is_approved_for_all(kitties, c.caller, MarketAccount)
                /\ Kitties_get_approved(kitties, c.id) = None
        IN  ( /\ c.op \in {"list_for_sale", "list_for_adoption"}
              /\ Kitties_owner_of(kitties, c.id) = c.caller ) =>
              /\ c.res = "Ok" => granted
              /\ ~granted =>
                    /\ c.res = (IF c.op = "list_for_sale"
                                THEN "ListSaleNotApproved"
                                ELSE "ListAdoptNotApproved")
                    /\ market' = market ]_vars

\* C34 (amended): as above, except that in the other states the call never
\* returns Ok and creates no listing, and returns ListSaleNotApproved /
\* ListAdoptNotApproved when no earlier test answers: list_for_sale returns
\* PriceIsZero for price 0 and AlreadyListedForSale for a kitty that has a
\* price, list_for_adoption returns AlreadyListedForAdoption for a kitty on
\* the adoption list.
C34_ListingNeedsOperatorAfterTests ==
    [][ LET c == last'
            granted ==
                /\ Kitties_is_approved_for_all(kitties, c.caller, MarketAccount)
                /\ Kitties_get_approved(kitties, c.id) = None
        IN  ( /\ c.op \in {"list_for_sale", "list_for_adoption"}
              /\ Kitties_owner_of(kitties, c.id) = c.caller ) =>
              /\ c.res = "Ok" => granted
              /\ ~granted =>
                    /\ c.res =
                         (IF c.op = "list_for_sale"
                          THEN IF c.value = 0 THEN "PriceIsZero"
                               ELSE IF contains(market.kitties_for_sale, c.id)
                               THEN "AlreadyListedForSale"
                               ELSE "ListSaleNotApproved"
                          ELSE IF vec_contains(market.kitties_for_adoption, c.id)
                               THEN "AlreadyListedForAdoption"
                               ELSE "ListAdoptNotApproved")
                    /\ market' = market ]_vars

\* the owner of a kitty that is not listed and has no approved account has
\* asked to list it for sale at a price above zero while the marketplace is
\* not its operator
C34_Witness ==
    /\ last.op = "list_for_sale"
    /\ last.value >= 1
    /\ last.res = "ListSaleNotApproved"
    /\ Kitties_owner_of(kitties, last.id) = last.caller
    /\ ~Kitties_is_approved_for_all(kitties, last.caller, MarketAccount)
    /\ Kitties_get_approved(kitties, last.id) = None
    /\ ~contains(market.kitties_for_sale, last.id)
    /\ ~vec_contains(market.kitties_for_adoption, last.id)

\* C33: whenever buy(id) returns Ok, the seller (the owner the registry
\* reported, who is paid and loses the kitty) is the account whose
\* list_for_sale call created the listing.
C33_SaleOnListersTerms ==
    [][ LET c == last'
        IN  ( c.op = "buy" /\ c.res = "Ok" ) =>
              /\ contains(listed_by, c.id)
              /\ Kitties_owner_of(kitties, c.id) = listed_by[c.id] ]_vars

=============================================================================
